---- MODULE Spec2Model ----
(***************************************************************************)
(* The books store of apibin: a map and an order slice guarded by one      *)
(* sync.RWMutex, mutated by request handlers (list, get, put, delete) and  *)
(* by two background goroutines (baseline reset, live update).             *)
(*                                                                         *)
(* Strings are sequences of byte values, so that sort.Strings is the       *)
(* bytewise lexicographic order the code uses.  Every goroutine is a       *)
(* process with a program counter; a critical section is several steps,    *)
(* so the atomicity the handlers get comes from the lock and from nothing  *)
(* else.                                                                   *)
(***************************************************************************)
EXTENDS Integers, Sequences, FiniteSets, TLC

VARIABLES
    books,        \* map[string]*Book: a function from the present keys
    booksNil,     \* TRUE while the map variable is still the nil map
    booksOrder,   \* []string
    booksBytes,   \* the embedded baseline dataset (books.json)
    now,          \* the value time.Now() returns
    rwW,          \* booksMu: the writer that holds or has announced the lock
    rwR,          \* booksMu: the goroutines holding the read lock
    rwB,          \* booksMu: readers blocked behind an announced writer
    pc,           \* position of every goroutine
    op,           \* the write handler a worker goroutine is running
    req,          \* key and body of the write request a worker serves
    resp,         \* the response of the write handler a worker runs
    loaded,       \* the reset goroutine's local `loaded`
    pre,          \* history: the store when a worker's write section began
    lastPut,      \* history: per key, the fingerprint an accepted put left there
    acq,          \* history: new keys in the order their puts took the lock
    ev,           \* one evaluation of the preconditions: its inputs and outcome
    echo,         \* the echo handler: a request model and the ETags it was given
    v2            \* the get handler of echo.go: the response a worker returned

vars == <<books, booksNil, booksOrder, booksBytes, now, rwW, rwR, rwB,
          pc, op, req, resp, loaded, pre, lastPut, acq, ev, echo, v2>>

-----------------------------------------------------------------------------
(* Bounds *)

\* time.Now() ranges over 1..MaxClock (0 is the zero time.Time)
MaxClock == 2
\* the baseline dataset holds sapiens and the keys t0..t<LastBaselineKey>
LastBaselineKey == 17

\* puts served while the map is still nil (each one grows booksOrder)
MaxEarlyPuts == 1

\* The size above which putBook evicts.
MaxBooks == 20

Workers == {"w1", "w2"}
ResetProc == "reset"
LiveProc == "live"
Procs == Workers \cup {ResetProc, LiveProc}
None == "none"

-----------------------------------------------------------------------------
(* Strings *)

Digit(n) == 48 + n

\* "t<n>"
KeyT(n) ==
    IF n < 10 THEN <<116, Digit(n)>>
    ELSE <<116, Digit(n \div 10), Digit(n % 10)>>

\* "sapiens": the key the live-update goroutine rewrites
sapiens == <<115, 97, 112, 105, 101, 110, 115>>

\* Keys that exist only at run time: "a" and "zz"
NewKeyA == <<97>>
NewKeyZ == <<122, 122>>

\* Go's string comparison: bytewise, a proper prefix is smaller
RECURSIVE StrLess(_, _)
StrLess(a, b) ==
    IF b = <<>> THEN FALSE
    ELSE IF a = <<>> THEN TRUE
    ELSE IF a[1] # b[1] THEN a[1] < b[1]
    ELSE StrLess(Tail(a), Tail(b))

Range(s) == {s[i] : i \in 1..Len(s)}

\* a faulty sort.Strings: the slice is left as maps.Keys returned it
SortStringsOmitted(s) == s

\* the position sort.Strings gives to s[k]: the number of elements below it
\* (equal elements in the order of their indices) plus one
SortedIndex(s, k) ==
    Cardinality({j \in 1..Len(s) :
                    StrLess(s[j], s[k]) \/ (s[j] = s[k] /\ j < k)}) + 1

\* sort.Strings: the elements of s in increasing order
SortStrings(s) ==
    LET placed == {<<SortedIndex(s, k), s[k]>> : k \in 1..Len(s)}
    IN  [i \in 1..Len(s) |-> (CHOOSE e \in placed : e[1] = i)[2]]

\* one enumeration of a set of strings
SetToSeq(S) ==
    [i \in 1..Cardinality(S) |->
        CHOOSE x \in S : Cardinality({y \in S : StrLess(y, x)}) = i - 1]

Reverse(s) == [i \in 1..Len(s) |-> s[Len(s) + 1 - i]]

Rotate(s) == [i \in 1..Len(s) |-> s[(i % Len(s)) + 1]]

\* maps.Keys: the keys in an unspecified order (two of the possible orders)
MapsKeys(m) == UNION {{Reverse(s), Rotate(s)} : s \in {SetToSeq(DOMAIN m)}}

-----------------------------------------------------------------------------
(* Books *)

\* A Book: the public fields (title, recent ratings) and the unexported
\* modified time.
MkBook(title, recent, modified) ==
    [title |-> title, recent |-> recent, modified |-> modified]

\* a faulty json.Marshal: the modification time is serialized as well
MarshalWithModified(b) ==
    [title |-> b.title, recent_ratings |-> b.recent, modified |-> b.modified]

\* json.Marshal(b): the exported fields; modified is tagged json:"-"
Marshal(b) == [title |-> b.title, recent_ratings |-> b.recent]

\* Book.Version: base64 of the FNV-128 hash of the marshalled public fields.
\* The hash is taken to be collision free on the values of the model.
Version(b) == <<"fnv128", Marshal(b)>>

\* The If-Match / If-None-Match wildcard "*"
Wildcard == <<"*", [title |-> <<>>, recent_ratings |-> <<>>]>>

\* books.json: sapiens (with one rating) and t0..t<LastBaselineKey>
BaselineKeys == {KeyT(i) : i \in 0..LastBaselineKey} \cup {sapiens}

BaselineData ==
    [k \in BaselineKeys |->
        MkBook(<<84>> \o k,
               IF k = sapiens THEN <<[date |-> 0, rating |-> 45]>> ELSE <<>>,
               0)]

\* Request inputs
RequestKeys == {sapiens, NewKeyA, NewKeyZ}

\* the request body of a put: a book titled "v1" without ratings
BodyV1 == MkBook(<<118, 49>>, <<>>, 0)

Bodies == {BodyV1}

\* conditional.Params
NoCond == [ifMatch |-> <<>>, ifNoneMatch |-> <<>>,
           ifModifiedSince |-> 0, ifUnmodifiedSince |-> 0]

Conds ==
    { NoCond,
      [NoCond EXCEPT !.ifMatch = <<Version(BodyV1)>>],
      [NoCond EXCEPT !.ifNoneMatch = <<Wildcard>>],
      [NoCond EXCEPT !.ifUnmodifiedSince = 1],
      [NoCond EXCEPT !.ifModifiedSince = 1] }

\* conditional.Params.HasConditionalParams
HasConditionalParams(c) ==
    \/ c.ifMatch # <<>>
    \/ c.ifNoneMatch # <<>>
    \/ c.ifModifiedSince # 0
    \/ c.ifUnmodifiedSince # 0

\* a faulty evaluator: if-none-match stops the request when the current
\* fingerprint is not listed, as if-match does
EvaluateNoneMatchAsMatch(c, fp, t) ==
    LET matchFails ==
            IF c.ifMatch # <<>>
            THEN ~(fp \in Range(c.ifMatch) \/ Wildcard \in Range(c.ifMatch))
            ELSE c.ifUnmodifiedSince # 0 /\ t > c.ifUnmodifiedSince
        notModified ==
            IF c.ifNoneMatch # <<>>
            THEN ~(fp \in Range(c.ifNoneMatch) \/ Wildcard \in Range(c.ifNoneMatch))
            ELSE c.ifModifiedSince # 0 /\ ~(t > c.ifModifiedSince)
    IN  IF matchFails THEN "PreconditionFailed"
        ELSE IF notModified THEN "NotModified"
        ELSE "Proceed"

\* a faulty evaluator: if-unmodified-since is checked whether or not an
\* if-match is present
EvaluateIndependent(c, fp, t) ==
    LET matchFails ==
            \/ /\ c.ifMatch # <<>>
               /\ ~(fp \in Range(c.ifMatch) \/ Wildcard \in Range(c.ifMatch))
            \/ c.ifUnmodifiedSince # 0 /\ t > c.ifUnmodifiedSince
        notModified ==
            IF c.ifNoneMatch # <<>>
            THEN fp \in Range(c.ifNoneMatch) \/ Wildcard \in Range(c.ifNoneMatch)
            ELSE c.ifModifiedSince # 0 /\ ~(t > c.ifModifiedSince)
    IN  IF matchFails THEN "PreconditionFailed"
        ELSE IF notModified THEN "NotModified"
        ELSE "Proceed"

\* The precondition evaluator: Proceed, NotModified or PreconditionFailed
Evaluate(c, fp, t) ==
    LET matchFails ==
            IF c.ifMatch # <<>>
            THEN ~(fp \in Range(c.ifMatch) \/ Wildcard \in Range(c.ifMatch))
            ELSE c.ifUnmodifiedSince # 0 /\ t > c.ifUnmodifiedSince
        notModified ==
            IF c.ifNoneMatch # <<>>
            THEN fp \in Range(c.ifNoneMatch) \/ Wildcard \in Range(c.ifNoneMatch)
            ELSE c.ifModifiedSince # 0 /\ ~(t > c.ifModifiedSince)
    IN  IF matchFails THEN "PreconditionFailed"
        ELSE IF notModified THEN "NotModified"
        ELSE "Proceed"

\* conditional.Params.PreconditionFailed: TRUE when the handler must stop
PreconditionFailed(c, fp, t) == Evaluate(c, fp, t) # "Proceed"

\* the status a handler answers with when the preconditions stop it:
\* a faulty library that answers 412 whatever the verb
ConditionalStatusAlways412(write) == 412

\* 304 on a read, 412 on a write
ConditionalStatus(write) == IF write THEN 412 ELSE 304

\* no evaluation made
NoEval == [cond |-> NoCond, fp |-> Wildcard, t |-> 0, write |-> FALSE,
           out |-> "none", status |-> 0]

-----------------------------------------------------------------------------
(* The echo handler's ETag *)

\* requests served per echoed model
MaxEchoRequests == 2

HeaderNames == {"Accept", "User-Agent"}
QueryNames == {"page", "q"}
HeaderValues == {"x", "y"}

\* map[string]string over a set of names
StringMaps(names) == UNION {[S -> HeaderValues] : S \in SUBSET names}

\* EchoModel: the method, the headers and the query parameters
EchoModels ==
    [method : {"GET", "PUT"}, headers : StringMaps(HeaderNames),
     query : StringMaps(QueryNames)]

\* the orders in which a range over a Go map can yield its entries
MapRange(m) ==
    {[i \in 1..Cardinality(DOMAIN m) |-> <<o[i], m[o[i]]>>] :
        o \in {f \in [1..Cardinality(DOMAIN m) -> DOMAIN m] :
                  \A i, j \in DOMAIN f : f[i] = f[j] => i = j}}

\* cbor.Marshal with the default options (no sorting of map keys): the
\* struct fields in their order and each map in the order the range yields
\* its entries; the encodings a call can produce
CborMarshal(v) ==
    {<<v.method, hs, qs>> : hs \in MapRange(v.headers), qs \in MapRange(v.query)}

\* genETagBytes: base64 of the xxh3 hash, taken to be collision free
genETagBytes(b) == <<"xxh3", b>>

\* genETag: the tokens a call can return
genETag(v) == {genETagBytes(b) : b \in CborMarshal(v)}

NoEcho == [model |-> [method |-> "GET", headers |-> <<>>, query |-> <<>>],
           etags |-> <<>>]

-----------------------------------------------------------------------------
(* Requests and responses *)

\* what is kept of a request while its handler runs: the key, the body and
\* the conditional headers
NoReq == [key |-> <<>>, body |-> <<>>, cond |-> NoCond]
MkReq(k, body, c) == [key |-> k, body |-> body, cond |-> c]

\* b.modified.Format(http.TimeFormat): the time cut to whole seconds.  The
\* clock counts half seconds and a second begins at every odd reading; the
\* zero time stays the zero time.
HttpTimeFormat(t) == IF t = 0 THEN 0 ELSE t - ((t + 1) % 2)

NoResp == [status |-> 0, body |-> <<>>, etag |-> <<>>, lastModified |-> 0,
           list |-> <<>>]
StatusResp(s) == [NoResp EXCEPT !.status = s]

\* GetBookResponse of echo.go: ETag, LastModified and Body, which is the
\* pointer b (ref: the Book it points to; live: it is still the Book the
\* map holds); body is what the framework has serialized and sent
NoGetBookResponse ==
    [key |-> <<>>, etag |-> <<>>, lastModified |-> 0, ref |-> <<>>,
     live |-> FALSE, body |-> <<>>, sent |-> FALSE]

NoV2 == [w \in Workers |-> NoGetBookResponse]

NoPre == [set |-> FALSE, books |-> <<>>, order |-> <<>>]
NoPut == <<>>

-----------------------------------------------------------------------------
(* The store operations, as the handlers compute them *)

Has(m, k) == k \in DOMAIN m

MapPut(m, k, b) == [x \in DOMAIN m \cup {k} |-> IF x = k THEN b ELSE m[x]]

\* delete(m, k)
MapDelete(m, k) == [x \in DOMAIN m \ {k} |-> m[x]]

\* slices.Index
RECURSIVE IndexFrom(_, _, _)
IndexFrom(s, x, i) ==
    IF i > Len(s) THEN 0
    ELSE IF s[i] = x THEN i
    ELSE IndexFrom(s, x, i + 1)

SlicesIndex(s, x) == IndexFrom(s, x, 1)

\* slices.Delete(s, idx, idx+1)
SlicesDelete(s, i) == SubSeq(s, 1, i - 1) \o SubSeq(s, i + 1, Len(s))

\* a faulty append: the key is appended whether or not it is in the map
AppendAlways(m, o, k) == Append(o, k)

\* a faulty append: the new key is put at the front of the slice
AppendIfNewFront(m, o, k) == IF k \in DOMAIN m THEN o ELSE <<k>> \o o

\* putBook: if books[id] == nil { booksOrder = append(booksOrder, id) }
AppendIfNew(m, o, k) == IF Has(m, k) THEN o ELSE Append(o, k)

\* a faulty loop condition: one entry too many is tolerated
NeedsEvictionOffByOne(m) == Cardinality(DOMAIN m) > MaxBooks + 1

\* putBook: the loop condition len(books) > 20
NeedsEviction(m) == Cardinality(DOMAIN m) > MaxBooks

\* a faulty eviction: the newest key of the slice is deleted from the map
EvictMapNewest(m, o) == [x \in DOMAIN m \ {o[Len(o)]} |-> m[x]]

\* putBook: delete(books, booksOrder[0])
EvictMap(m, o) == MapDelete(m, o[1])

\* putBook: booksOrder = booksOrder[1:]
EvictOrder(o) == Tail(o)

\* a faulty removal: the last key of the slice is moved into the place of
\* the removed one
DeleteOrderSwap(o, k) ==
    LET idx == SlicesIndex(o, k)
    IN  IF idx = 0 THEN o
        ELSE IF idx = Len(o) THEN SubSeq(o, 1, Len(o) - 1)
        ELSE [i \in 1..(Len(o) - 1) |-> IF i = idx THEN o[Len(o)] ELSE o[i]]

\* deleteBook: the slice after the removal
DeleteOrder(o, k) ==
    LET idx == SlicesIndex(o, k)
    IN  IF idx > 0 THEN SlicesDelete(o, idx) ELSE o

\* the reset goroutine: every loaded book stamped with time.Now()
LoadBaseline(bytes, t) ==
    [k \in DOMAIN bytes |-> [bytes[k] EXCEPT !.modified = t]]

\* a faulty live update: only the modification time is refreshed
LiveUpdateStampOnly(b, t) == [b EXCEPT !.modified = t]

\* a faulty live update: the rating is appended to the ones the entry has
LiveUpdateAppends(b, t) ==
    [b EXCEPT !.modified = t,
              !.recent = Append(b.recent, [date |-> t, rating |-> 46])]

\* the live-update goroutine: what it writes into books["sapiens"]
LiveUpdate(b, t) ==
    [b EXCEPT !.modified = t, !.recent = <<[date |-> t, rating |-> 46]>>]

\* listBooks: one summary per element of booksOrder
Summary(m, k) == [url |-> <<47>> \o k, version |-> Version(m[k]),
                  modified |-> m[k].modified]

ListSummaries(m, o) == [i \in 1..Len(o) |-> Summary(m, o[i])]

-----------------------------------------------------------------------------
(* booksMu *)

\* a faulty read lock: RLock never waits for a writer
RLockAlwaysFree == TRUE

\* RLock returns at once when no writer holds or has announced the lock
RLockFree == rwW = None

\* Lock returns once the readers that held the lock have left
WLockFree == rwR = {}

\* where a goroutine is when Lock or RLock has returned
FirstStep(p) ==
    IF p = ResetProc THEN "assign"
    ELSE IF p = LiveProc THEN "tick"
    ELSE IF pc[p] = "rblocked" THEN "read"
    ELSE "write"

\* a faulty reset goroutine: it loads the baseline once and returns
AfterUnlockOnce(p) ==
    IF p = ResetProc THEN "done"
    ELSE IF p = LiveProc THEN "lock"
    ELSE "idle"

\* where a goroutine goes after it has released the write lock.  The
\* live-update goroutine sleeps and calls Lock again: it queues for the lock
\* for as long as the sleep lasts.
AfterUnlock(p) ==
    IF p = ResetProc THEN "load"
    ELSE IF p = LiveProc THEN "lock"
    ELSE "idle"

\* positions inside a write section and inside a read section
WritePcs == {"write", "putEvict", "putSlice", "assign", "keys", "tick",
             "unlock"}
ReadPcs == {"read"}

-----------------------------------------------------------------------------
\* the state at program start, before either goroutine of init() has run,
\* with the embedded dataset bytes
InitWith(bytes) ==
    /\ books = <<>>
    /\ booksNil = TRUE
    /\ booksOrder = <<>>
    /\ booksBytes = bytes
    /\ now = 1
    /\ rwW = None
    /\ rwR = {}
    /\ rwB = {}
    /\ pc = [p \in Procs |->
                IF p = ResetProc THEN "load"
                ELSE IF p = LiveProc THEN "lock" ELSE "idle"]
    /\ op = [w \in Workers |-> None]
    /\ req = [w \in Workers |-> NoReq]
    /\ resp = [w \in Workers |-> NoResp]
    /\ loaded = <<>>
    /\ pre = [w \in Workers |-> NoPre]
    /\ lastPut = [k \in RequestKeys |-> NoPut]
    /\ acq = <<>>

InitStore == InitWith(BaselineData)

Init == InitStore /\ ev = NoEval /\ echo = NoEcho /\ v2 = NoV2

store == <<books, booksNil, booksOrder>>
lock == <<rwW, rwR, rwB>>
hist == <<pre, lastPut, acq>>
aux == <<ev, echo, v2>>

-----------------------------------------------------------------------------
(* The clock *)

AdvanceClock ==
    /\ now < MaxClock
    /\ now' = now + 1
    /\ UNCHANGED <<store, booksBytes, aux, lock, pc, op, req, resp, loaded, hist>>

-----------------------------------------------------------------------------
(* Lock operations *)

\* booksMu.RLock() on entry to listBooks / getBook
BeginRead(w) ==
    /\ pc[w] = "idle"
    /\ IF RLockFree
       THEN /\ rwR' = rwR \cup {w}
            /\ pc' = [pc EXCEPT ![w] = "read"]
            /\ UNCHANGED rwB
       ELSE /\ rwB' = rwB \cup {w}
            /\ pc' = [pc EXCEPT ![w] = "rblocked"]
            /\ UNCHANGED rwR
    /\ UNCHANGED <<store, booksBytes, aux, now, rwW, op, req, resp, loaded, hist>>

\* booksMu.Lock() is called on entry to putBook / deleteBook: the goroutine
\* queues for the lock
BeginWrite(w) ==
    /\ pc[w] = "idle"
    /\ pc' = [pc EXCEPT ![w] = "lock"]
    /\ UNCHANGED <<store, booksBytes, aux, now, lock, op, req, resp, loaded, hist>>

\* Lock(): the writer wins the writers' mutex and announces itself, which
\* blocks readers that arrive from now on
AcquireW(p) ==
    /\ pc[p] = "lock"
    /\ rwW = None
    /\ rwW' = p
    /\ pc' = [pc EXCEPT ![p] = "drain"]
    /\ UNCHANGED <<store, booksBytes, aux, now, rwR, rwB, op, req, resp, loaded, hist>>

\* Lock() returns
Drained(p) ==
    /\ pc[p] = "drain"
    /\ WLockFree
    /\ pc' = [pc EXCEPT ![p] = FirstStep(p)]
    /\ UNCHANGED <<store, booksBytes, aux, now, lock, op, req, resp, loaded, hist>>

\* a faulty handler: the return after a failed precondition skips Unlock
ReleasedUnlessRejected(p) ==
    IF p \in Workers /\ resp[p].status = 412
    THEN [w |-> rwW, r |-> rwR, b |-> rwB]
    ELSE [w |-> None, r |-> rwB, b |-> {}]

\* what Unlock does to the lock: the blocked readers get the read lock
Released(p) == [w |-> None, r |-> rwB, b |-> {}]

\* booksMu.Unlock(), deferred in the handlers; the handler has returned
Unlock(p) ==
    /\ pc[p] = "unlock"
    /\ rwW' = Released(p).w
    /\ rwR' = Released(p).r
    /\ rwB' = Released(p).b
    /\ pc' = [q \in Procs |->
                IF q = p THEN AfterUnlock(p)
                ELSE IF q \in rwB THEN FirstStep(q)
                ELSE pc[q]]
    /\ IF p \in Workers
       THEN /\ op' = [op EXCEPT ![p] = None]
            /\ req' = [req EXCEPT ![p] = NoReq]
            /\ resp' = [resp EXCEPT ![p] = NoResp]
            /\ pre' = [pre EXCEPT ![p] = NoPre]
       ELSE UNCHANGED <<op, req, resp, pre>>
    /\ UNCHANGED <<store, booksBytes, aux, now, loaded, lastPut, acq>>

\* listBooks and getBook read the store under the read lock, write the
\* response (ListResponse, GetResponse of the store as it is now) and
\* return; the deferred booksMu.RUnlock() runs
ReadDone(w) ==
    /\ pc[w] = "read"
    /\ rwR' = rwR \ {w}
    /\ pc' = [pc EXCEPT ![w] = "idle"]
    /\ UNCHANGED <<store, booksBytes, aux, now, rwW, rwB, op, req, resp, loaded, hist>>

-----------------------------------------------------------------------------
(* listBooks *)

\* The response of listBooks.  b := books[k]; b.Version() dereferences a nil
\* pointer when a key of booksOrder is not in the map: the handler panics
\* (500).
ListResponse(m, o) ==
    IF \A i \in 1..Len(o) : Has(m, o[i])
    THEN [StatusResp(200) EXCEPT !.list = ListSummaries(m, o)]
    ELSE StatusResp(500)

-----------------------------------------------------------------------------
(* getBook *)

\* a faulty getBook: the preconditions are evaluated before the key is
\* looked up, and fail when there is no entry
GetResponseChecksFirst(m, k, c) ==
    IF HasConditionalParams(c)
       /\ (~Has(m, k) \/ PreconditionFailed(c, Version(m[k]), m[k].modified))
    THEN StatusResp(304)
    ELSE IF ~Has(m, k) THEN StatusResp(404)
    ELSE [StatusResp(200) EXCEPT !.body = <<m[k]>>,
                                 !.etag = <<Version(m[k])>>,
                                 !.lastModified = HttpTimeFormat(m[k].modified)]

\* The response of getBook for key k under conditions c
GetResponse(m, k, c) ==
    IF ~Has(m, k) THEN StatusResp(404)
    ELSE IF PreconditionFailed(c, Version(m[k]), m[k].modified)
    THEN StatusResp(ConditionalStatus(FALSE))
    ELSE [StatusResp(200) EXCEPT !.body = <<m[k]>>,
                                 !.etag = <<Version(m[k])>>,
                                 !.lastModified = HttpTimeFormat(m[k].modified)]

-----------------------------------------------------------------------------
(* putBook *)

\* a handler layer that evaluates the preconditions once in every handler
PreconditionCallsAlwaysOne(h, m, k, c) == 1

\* how many times handler h calls PreconditionFailed when it serves key k
\* under conditions c from the map m: listBooks has no conditional
\* parameters and never calls it; getBook calls it once when the key is
\* there; putBook and deleteBook call it once when the request has
\* conditional headers and the key is there (&& does not evaluate its right
\* side otherwise)
PreconditionCalls(h, m, k, c) ==
    IF h = "list" THEN 0
    ELSE IF h = "get" THEN (IF Has(m, k) THEN 1 ELSE 0)
    ELSE IF HasConditionalParams(c) /\ Has(m, k) THEN 1 ELSE 0

\* a faulty check: the if-match header is not looked at
RejectedIgnoresIfMatch(m, k, c) ==
    /\ HasConditionalParams(c)
    /\ Has(m, k)
    /\ PreconditionFailed([c EXCEPT !.ifMatch = <<>>], Version(m[k]),
                          m[k].modified)

\* the conditional check putBook and deleteBook make before they write
Rejected(m, k, c) ==
    /\ HasConditionalParams(c)
    /\ Has(m, k)
    /\ PreconditionFailed(c, Version(m[k]), m[k].modified)

\* input.Body.modified = time.Now(); books[input.ID] = input.Body
StoredBook(body, t) == [body EXCEPT !.modified = t]

\* history: the fingerprint of the body an accepted put stored under a key
PutRecord(body) == <<Version(body)>>

\* history: the book under key k is no longer the one a put stored (it was
\* deleted, evicted or rewritten in place) or the store was reloaded
Forget(lp, k) == [x \in DOMAIN lp |-> IF x = k THEN NoPut ELSE lp[x]]

Without(s, k) == SelectSeq(s, LAMBDA x : x # k)

\* putBook up to books[input.ID] = input.Body.  The assignment to an entry
\* of the nil map panics after booksOrder was appended to: the handler ends
\* with 500 and the deferred Unlock runs.
PutWrite(w, k, body, c) ==
    /\ pc[w] = "write"
    /\ booksNil => Len(booksOrder) < MaxEarlyPuts
    /\ op' = [op EXCEPT ![w] = "put"]
    /\ req' = [req EXCEPT ![w] = MkReq(k, <<body>>, c)]
    /\ pre' = [pre EXCEPT ![w] =
                  [set |-> TRUE, books |-> books, order |-> booksOrder]]
    /\ IF Rejected(books, k, c)
       THEN /\ resp' = [resp EXCEPT ![w] =
                            StatusResp(ConditionalStatus(TRUE))]
            /\ pc' = [pc EXCEPT ![w] = "unlock"]
            /\ UNCHANGED <<books, booksOrder, lastPut, acq>>
       ELSE /\ booksOrder' = AppendIfNew(books, booksOrder, k)
            /\ IF booksNil
               THEN /\ resp' = [resp EXCEPT ![w] = StatusResp(500)]
                    /\ pc' = [pc EXCEPT ![w] = "unlock"]
                    /\ UNCHANGED <<books, lastPut, acq>>
               ELSE /\ books' = MapPut(books, k, StoredBook(body, now))
                    /\ lastPut' = [lastPut EXCEPT ![k] = PutRecord(body)]
                    /\ acq' = IF Has(books, k) THEN acq ELSE Append(acq, k)
                    /\ pc' = [pc EXCEPT ![w] = "putEvict"]
                    /\ UNCHANGED resp
    /\ UNCHANGED <<booksNil, booksBytes, aux, now, lock, loaded>>

\* for len(books) > 20 { delete(books, booksOrder[0]) ...
\* or the end of the loop and of the handler (204)
PutEvict(w) ==
    /\ pc[w] = "putEvict"
    /\ IF NeedsEviction(books)
       THEN IF booksOrder = <<>>
            THEN /\ resp' = [resp EXCEPT ![w] = StatusResp(500)]
                 /\ pc' = [pc EXCEPT ![w] = "unlock"]
                 /\ UNCHANGED <<books, lastPut, acq>>
            ELSE /\ books' = EvictMap(books, booksOrder)
                 /\ lastPut' = Forget(lastPut, booksOrder[1])
                 /\ acq' = Without(acq, booksOrder[1])
                 /\ pc' = [pc EXCEPT ![w] = "putSlice"]
                 /\ UNCHANGED resp
       ELSE /\ resp' = [resp EXCEPT ![w] = StatusResp(204)]
            /\ pc' = [pc EXCEPT ![w] = "unlock"]
            /\ UNCHANGED <<books, lastPut, acq>>
    /\ UNCHANGED <<booksNil, booksOrder, booksBytes, aux, now, lock, op, req,
                   loaded, pre>>

\* ... booksOrder = booksOrder[1:] }
PutSlice(w) ==
    /\ pc[w] = "putSlice"
    /\ booksOrder' = EvictOrder(booksOrder)
    /\ pc' = [pc EXCEPT ![w] = "putEvict"]
    /\ UNCHANGED <<books, booksNil, booksBytes, aux, now, lock, op, req, resp,
                   loaded, hist>>

-----------------------------------------------------------------------------
(* deleteBook *)

\* a faulty deleteBook: the entry is deleted before the preconditions are
\* looked at
DelWriteDeletesFirst(w, k, c) ==
    /\ pc[w] = "write"
    /\ op' = [op EXCEPT ![w] = "delete"]
    /\ req' = [req EXCEPT ![w] = MkReq(k, <<>>, c)]
    /\ pre' = [pre EXCEPT ![w] =
                  [set |-> TRUE, books |-> books, order |-> booksOrder]]
    /\ books' = MapDelete(books, k)
    /\ booksOrder' = DeleteOrder(booksOrder, k)
    /\ lastPut' = Forget(lastPut, k)
    /\ acq' = Without(acq, k)
    /\ resp' = [resp EXCEPT ![w] =
                   IF Rejected(books, k, c)
                   THEN StatusResp(ConditionalStatus(TRUE))
                   ELSE StatusResp(204)]
    /\ pc' = [pc EXCEPT ![w] = "unlock"]
    /\ UNCHANGED <<booksNil, booksBytes, aux, now, lock, loaded>>

\* delete(books, id) is a no-op on the nil map and on an absent key
DelWrite(w, k, c) ==
    /\ pc[w] = "write"
    /\ op' = [op EXCEPT ![w] = "delete"]
    /\ req' = [req EXCEPT ![w] = MkReq(k, <<>>, c)]
    /\ pre' = [pre EXCEPT ![w] =
                  [set |-> TRUE, books |-> books, order |-> booksOrder]]
    /\ IF Rejected(books, k, c)
       THEN /\ resp' = [resp EXCEPT ![w] =
                            StatusResp(ConditionalStatus(TRUE))]
            /\ UNCHANGED <<books, booksOrder, lastPut, acq>>
       ELSE /\ books' = MapDelete(books, k)
            /\ booksOrder' = DeleteOrder(booksOrder, k)
            /\ lastPut' = Forget(lastPut, k)
            /\ acq' = Without(acq, k)
            /\ resp' = [resp EXCEPT ![w] = StatusResp(204)]
    /\ pc' = [pc EXCEPT ![w] = "unlock"]
    /\ UNCHANGED <<booksNil, booksBytes, aux, now, lock, loaded>>

-----------------------------------------------------------------------------
(* The reset goroutine *)

\* json.Unmarshal(booksBytes, &loaded); b.modified = time.Now() for each;
\* then booksMu.Lock() is called
ResetLoad ==
    /\ pc[ResetProc] = "load"
    /\ loaded' = LoadBaseline(booksBytes, now)
    /\ pc' = [pc EXCEPT ![ResetProc] = "lock"]
    /\ UNCHANGED <<store, booksBytes, aux, now, lock, op, req, resp, hist>>

\* books = loaded
ResetAssign ==
    /\ pc[ResetProc] = "assign"
    /\ books' = loaded
    /\ booksNil' = FALSE
    /\ loaded' = <<>>
    /\ lastPut' = [k \in RequestKeys |-> NoPut]
    /\ acq' = <<>>
    /\ pc' = [pc EXCEPT ![ResetProc] = "keys"]
    /\ UNCHANGED <<booksOrder, booksBytes, aux, now, lock, op, req, resp, pre>>

\* booksOrder = maps.Keys(books); sort.Strings(booksOrder)
ResetOrder ==
    /\ pc[ResetProc] = "keys"
    /\ \E ks \in MapsKeys(books) : booksOrder' = SortStrings(ks)
    /\ pc' = [pc EXCEPT ![ResetProc] = "unlock"]
    /\ UNCHANGED <<books, booksNil, booksBytes, aux, now, lock, op, req, resp,
                   loaded, hist>>

-----------------------------------------------------------------------------
(* The live-update goroutine *)

\* a faulty live update: the entry is written whether or not it is there
TickRecreates ==
    /\ pc[LiveProc] = "tick"
    /\ IF ~booksNil
       THEN /\ books' = MapPut(books, sapiens,
                               LiveUpdate(IF Has(books, sapiens)
                                          THEN books[sapiens]
                                          ELSE BaselineData[sapiens], now))
            /\ lastPut' = Forget(lastPut, sapiens)
       ELSE UNCHANGED <<books, lastPut>>
    /\ pc' = [pc EXCEPT ![LiveProc] = "unlock"]
    /\ UNCHANGED <<booksNil, booksOrder, booksBytes, aux, now, lock, op, req, resp,
                   loaded, pre, acq>>

\* b := books["sapiens"]; if b != nil { ... }
Tick ==
    /\ pc[LiveProc] = "tick"
    /\ IF Has(books, sapiens)
       THEN /\ books' = MapPut(books, sapiens, LiveUpdate(books[sapiens], now))
            /\ lastPut' = Forget(lastPut, sapiens)
       ELSE UNCHANGED <<books, lastPut>>
    /\ pc' = [pc EXCEPT ![LiveProc] = "unlock"]
    /\ UNCHANGED <<booksNil, booksOrder, booksBytes, aux, now, lock, op, req, resp,
                   loaded, pre, acq>>

-----------------------------------------------------------------------------
Next ==
    \/ AdvanceClock
    \/ \E w \in Workers : BeginRead(w)
    \/ \E w \in Workers : BeginWrite(w)
    \/ \E p \in Procs : AcquireW(p)
    \/ \E p \in Procs : Drained(p)
    \/ \E p \in Procs : Unlock(p)
    \/ \E w \in Workers : ReadDone(w)
    \/ \E w \in Workers, k \in RequestKeys, b \in Bodies, c \in Conds :
          PutWrite(w, k, b, c)
    \/ \E w \in Workers : PutEvict(w)
    \/ \E w \in Workers : PutSlice(w)
    \/ \E w \in Workers, k \in RequestKeys, c \in Conds : DelWrite(w, k, c)
    \/ ResetLoad
    \/ ResetAssign
    \/ ResetOrder
    \/ Tick

Spec == Init /\ [][Next]_vars

-----------------------------------------------------------------------------
(* Properties of the store *)

\* no goroutine is inside an exclusive (write) critical section
NoWriterInside == \A p \in Procs : pc[p] \notin WritePcs

\* a put handler has returned (its deferred Unlock is about to run)
PutReturned(w) == pc[w] = "unlock" /\ op[w] = "put"

\* a put handler has returned 204
PutAccepted(w) == PutReturned(w) /\ resp[w].status = 204

NoDuplicates(s) == \A i, j \in 1..Len(s) : s[i] = s[j] => i = j

IsSorted(s) == \A i \in 1..(Len(s) - 1) : StrLess(s[i], s[i + 1])

\* C1: in every state observable outside an exclusive critical section the
\* order slice contains exactly the keys of the map, each once, so the two
\* have the same length.
C1_OrderMatchesEntries ==
    NoWriterInside =>
        /\ Range(booksOrder) = DOMAIN books
        /\ NoDuplicates(booksOrder)
        /\ Len(booksOrder) = Cardinality(DOMAIN books)

\* C1 from the first baseline load onward: the same statement restricted to
\* the states in which the map is no longer nil.
OrderMatchesEntriesOnceLoaded ==
    (NoWriterInside /\ ~booksNil) =>
        /\ Range(booksOrder) = DOMAIN books
        /\ NoDuplicates(booksOrder)
        /\ Len(booksOrder) = Cardinality(DOMAIN books)

\* C2: the store holds at most 20 entries whenever no put is in the middle
\* of its eviction loop, in particular whenever a put has returned.
C2_AtMostMaxBooks ==
    (\A w \in Workers : pc[w] \notin {"putEvict", "putSlice"}) =>
        Cardinality(DOMAIN books) <= MaxBooks

\* a put of a new key into a full store has returned 204
C2_Witness ==
    \E w \in Workers :
        /\ PutAccepted(w)
        /\ Cardinality(DOMAIN pre[w].books) = MaxBooks
        /\ ~Has(pre[w].books, req[w].key)
        /\ Cardinality(DOMAIN books) = MaxBooks

\* C3: when the store holds exactly 20 entries, an accepted put of an absent
\* key removes exactly the key at the front of the order slice, whatever was
\* written to that key and when; the store still holds 20 entries and the
\* new key is the last of the order slice and of the list.
C3_EvictsFrontOnly ==
    \A w \in Workers :
        (/\ PutAccepted(w)
         /\ Cardinality(DOMAIN pre[w].books) = MaxBooks
         /\ ~Has(pre[w].books, req[w].key)) =>
            /\ DOMAIN books =
                  (DOMAIN pre[w].books \ {pre[w].order[1]}) \cup {req[w].key}
            /\ DOMAIN pre[w].books \ DOMAIN books = {pre[w].order[1]}
            /\ \A k \in DOMAIN books \ {req[w].key} : books[k] = pre[w].books[k]
            /\ Cardinality(DOMAIN books) = MaxBooks
            /\ booksOrder = Append(Tail(pre[w].order), req[w].key)
            /\ LET l == ListResponse(books, booksOrder).list
               IN  Len(l) = MaxBooks /\ l[Len(l)].url = <<47>> \o req[w].key

\* such a put has returned, and the evicted key was the most recently
\* written one of the store
C3_Witness ==
    \E w \in Workers :
        /\ PutAccepted(w)
        /\ Cardinality(DOMAIN pre[w].books) = MaxBooks
        /\ ~Has(pre[w].books, req[w].key)
        /\ LET front == pre[w].order[1]
           IN  /\ Has(pre[w].books, front)
               /\ ~Has(books, front)
               /\ \A k \in DOMAIN pre[w].books \ {front} :
                     pre[w].books[k].modified < pre[w].books[front].modified

\* C4: when a put of (k, v) has returned 204, k is in the store with the
\* payload v, also when the eviction loop ran.
C4_PutKeyPresent ==
    \A w \in Workers :
        PutAccepted(w) =>
            /\ Has(books, req[w].key)
            /\ Marshal(books[req[w].key]) = Marshal(req[w].body[1])
            /\ req[w].key \in Range(booksOrder)

\* an accepted put has returned after its eviction loop removed a key
C4_Witness ==
    \E w \in Workers :
        /\ PutAccepted(w)
        /\ DOMAIN pre[w].books \ DOMAIN books # {}
        /\ Has(books, req[w].key)

-----------------------------------------------------------------------------
(* Reads after writes *)

Fingerprints == {Version(b) : b \in Bodies}

\* a getBook of k served now finds k, and what it returns (when it returns
\* a payload) has the fingerprint fp
GetFinds(k, fp) ==
    \A c \in Conds :
        LET r == GetResponse(books, k, c)
        IN  /\ r.status # 404
            /\ r.status = 200 => (r.etag = <<fp>> /\ Version(r.body[1]) = fp)

\* a step of a deleteBook of k
DeletesKey(k) ==
    \E w \in Workers :
        pc[w] = "write" /\ op'[w] = "delete" /\ req'[w].key = k

\* the step of the reset goroutine that replaces the map
Reloads == pc[ResetProc] = "assign" /\ pc'[ResetProc] = "keys"

\* C5 as stated: once a put of (k, v) is accepted, a get of k keeps finding k
\* with the fingerprint of v over every step that is neither a delete of k
\* nor a baseline reload.
C5_PutVisibleUntilDeleteOrReload ==
    [][\A k \in RequestKeys : \A fp \in Fingerprints :
          (lastPut[k] = <<fp>> /\ GetFinds(k, fp) /\ ~DeletesKey(k) /\ ~Reloads)
              => GetFinds(k, fp)']_vars

\* C5, amended: while the book an accepted put of (k, v) stored under k is
\* still the stored one (k was not deleted, not evicted by a later put, not
\* rewritten by the live update, and the store was not reloaded), a get of k
\* finds k with the fingerprint of v.
C5_PutVisibleWhileStored ==
    \A k \in RequestKeys : lastPut[k] # NoPut => GetFinds(k, lastPut[k][1])

\* a getBook is being served while two keys hold what accepted puts stored
C5_Witness ==
    /\ \E w \in Workers : pc[w] = "read"
    /\ lastPut[NewKeyA] # NoPut
    /\ lastPut[sapiens] # NoPut
    /\ now = MaxClock

-----------------------------------------------------------------------------
(* deleteBook *)

\* C6: a delete of a key that is not in the map is accepted with 204 and
\* leaves the map and the order slice unchanged; a second delete of the same
\* key leaves the store as the first left it.
C6_DeleteIdempotent ==
    \A w \in Workers :
        (pc[w] = "unlock" /\ op[w] = "delete") =>
            /\ ~Has(pre[w].books, req[w].key) =>
                  /\ resp[w].status = 204
                  /\ books = pre[w].books
                  /\ booksOrder = pre[w].order
            /\ resp[w].status = 204 =>
                  /\ MapDelete(books, req[w].key) = books
                  /\ DeleteOrder(booksOrder, req[w].key) = booksOrder

\* C6 from the first baseline load onward
DeleteIdempotentOnceLoaded ==
    \A w \in Workers :
        (pc[w] = "unlock" /\ op[w] = "delete" /\ ~booksNil) =>
            /\ ~Has(pre[w].books, req[w].key) =>
                  /\ resp[w].status = 204
                  /\ books = pre[w].books
                  /\ booksOrder = pre[w].order
            /\ resp[w].status = 204 =>
                  /\ MapDelete(books, req[w].key) = books
                  /\ DeleteOrder(booksOrder, req[w].key) = booksOrder

-----------------------------------------------------------------------------
(* Readers and writers *)

\* a put is between its first write to the store and the release of the lock
PutInProgress(w) ==
    pc[w] \in {"putEvict", "putSlice"} \/ PutReturned(w)

\* C7: while a list or a get reads the store, no put is between its
\* insertion and the end of its eviction loop, and the store the reader
\* sees holds at most 20 entries, in the map and in the list.
C7_ReadersSeeWholePuts ==
    \A r \in Workers :
        pc[r] = "read" =>
            /\ \A w \in Workers : ~PutInProgress(w)
            /\ Cardinality(DOMAIN books) <= MaxBooks
            /\ Len(booksOrder) <= MaxBooks
            /\ Len(ListResponse(books, booksOrder).list) <= MaxBooks

\* a reader reads the full store two puts of new keys left, the older one of
\* them with eviction, while a writer waits for the reader to leave
C7_Witness ==
    \E r, w \in Workers :
        /\ pc[r] = "read"
        /\ pc[w] = "drain"
        /\ Cardinality(DOMAIN books) = MaxBooks
        /\ lastPut[NewKeyA] # NoPut
        /\ lastPut[NewKeyZ] # NoPut

\* C8: accepted puts of distinct new keys that evict nothing add exactly
\* their keys: each is in the map and once in the order slice, the new keys
\* stand in the order in which their puts held the lock, and every key that
\* was there before is still there, once and unchanged.
C8_NewKeysInLockOrder ==
    /\ NoDuplicates(acq)
    /\ SelectSeq(booksOrder, LAMBDA x : x \in Range(acq)) = acq
    /\ \A k \in Range(acq) : Has(books, k)
    /\ \A w \in Workers :
          (/\ PutAccepted(w)
           /\ ~Has(pre[w].books, req[w].key)
           /\ Cardinality(DOMAIN pre[w].books) < MaxBooks) =>
              /\ DOMAIN books = DOMAIN pre[w].books \cup {req[w].key}
              /\ booksOrder = Append(pre[w].order, req[w].key)
              /\ \A k \in DOMAIN pre[w].books : books[k] = pre[w].books[k]

\* the second of two puts of new keys has returned without eviction while
\* the other worker queues for the lock
C8_Witness ==
    \E w, v \in Workers :
        /\ PutAccepted(w)
        /\ ~Has(pre[w].books, req[w].key)
        /\ DOMAIN pre[w].books \subseteq DOMAIN books
        /\ Len(acq) = 2
        /\ pc[v] = "lock"

-----------------------------------------------------------------------------
(* The baseline reload *)

\* C10: when the reload has replaced the map, the keys and the payloads are
\* those of the baseline (the live-updated entry included); when it has
\* rebuilt the order slice, that is the baseline keys sorted; and no reader
\* reads between the two.
C10_ReloadRestoresBaseline ==
    /\ pc[ResetProc] \in {"keys", "unlock"} =>
          /\ DOMAIN books = DOMAIN booksBytes
          /\ \A k \in DOMAIN books : Marshal(books[k]) = Marshal(booksBytes[k])
    /\ pc[ResetProc] = "unlock" =>
          /\ Range(booksOrder) = DOMAIN booksBytes
          /\ Len(booksOrder) = Cardinality(DOMAIN booksBytes)
          /\ IsSorted(booksOrder)
    /\ \A r \in Workers :
          pc[r] = "read" => pc[ResetProc] \notin {"keys", "unlock"}

\* the reload has replaced the map of a loaded store to which "a" had been
\* added and from which "sapiens" had been removed; the order slice is still
\* the old one
C10_Witness ==
    /\ pc[ResetProc] = "keys"
    /\ NewKeyA \in Range(booksOrder)
    /\ sapiens \notin Range(booksOrder)
    /\ Len(booksOrder) = Cardinality(BaselineKeys)
    /\ Has(books, sapiens)

-----------------------------------------------------------------------------
(* The lock under fair scheduling *)

\* the requests of the fair specification: the two new keys (the second put
\* evicts), with and without a condition that fails on an existing key
LockKeys == {NewKeyA, NewKeyZ}
LockConds == {NoCond, [NoCond EXCEPT !.ifNoneMatch = <<Wildcard>>]}

\* the body of putBook or of deleteBook up to its first return or loop
WriteStep(w) ==
    \/ \E k \in LockKeys, b \in Bodies, c \in LockConds : PutWrite(w, k, b, c)
    \/ \E k \in LockKeys, c \in LockConds : DelWrite(w, k, c)

NextLock ==
    \/ \E w \in Workers : BeginRead(w)
    \/ \E w \in Workers : BeginWrite(w)
    \/ \E p \in Procs : AcquireW(p)
    \/ \E p \in Procs : Drained(p)
    \/ \E p \in Procs : Unlock(p)
    \/ \E w \in Workers : ReadDone(w)
    \/ \E w \in Workers : WriteStep(w)
    \/ \E w \in Workers : PutEvict(w)
    \/ \E w \in Workers : PutSlice(w)
    \/ ResetLoad
    \/ ResetAssign
    \/ ResetOrder
    \/ Tick

\* A goroutine that can run does run; Go's mutex hands the lock to a waiter
\* that has been starved (starvation mode), so a goroutine that finds the
\* lock free again and again gets it.
Fairness ==
    /\ \A p \in Procs : SF_vars(AcquireW(p))
    /\ \A p \in Procs : WF_vars(Drained(p))
    /\ \A p \in Procs : WF_vars(Unlock(p))
    /\ \A w \in Workers : WF_vars(ReadDone(w))
    /\ \A w \in Workers : WF_vars(WriteStep(w))
    /\ \A w \in Workers : WF_vars(PutEvict(w))
    /\ \A w \in Workers : WF_vars(PutSlice(w))
    /\ WF_vars(ResetLoad)
    /\ WF_vars(ResetAssign)
    /\ WF_vars(ResetOrder)
    /\ WF_vars(Tick)

FairSpec == Init /\ [][NextLock]_vars /\ Fairness

\* the lock is held by goroutines inside their critical sections only
LockHeldOnlyInside ==
    /\ rwW # None => pc[rwW] \in WritePcs \cup {"drain"}
    /\ \A r \in rwR : pc[r] \in ReadPcs
    /\ \A b \in rwB : pc[b] = "rblocked"

Waiting(p) == pc[p] \in {"lock", "drain", "rblocked"}
Inside(p) == pc[p] \in WritePcs \cup ReadPcs
HoldsNothing(p) == rwW # p /\ p \notin rwR

\* C9: every handler and background goroutine that took the lock releases
\* it on every way out (404, 304, 412 and the panic included): nobody holds
\* the lock outside a critical section, every goroutine inside one
\* eventually holds nothing, and every goroutine waiting for the lock
\* eventually gets it.
C9_LockAlwaysReleased ==
    /\ []LockHeldOnlyInside
    /\ \A p \in Procs : Inside(p) ~> HoldsNothing(p)
    /\ \A p \in Procs : Waiting(p) ~> Inside(p)

\* a handler has returned on a failed precondition while another goroutine
\* waits for the lock and a reader is blocked
C9_Witness ==
    \E w \in Workers :
        /\ pc[w] = "unlock"
        /\ resp[w].status = 412
        /\ \E p \in Procs \ {w} : pc[p] = "lock"
        /\ rwB # {}

-----------------------------------------------------------------------------
(* listBooks and getBook *)

\* the list a reader gets is one summary per stored key, in the order of
\* booksOrder, with the fingerprint and the modified time of the entry as it
\* is now
ListIsOnePerKey ==
    LET l == ListResponse(books, booksOrder)
    IN  /\ l.status = 200
        /\ Len(l.list) = Cardinality(DOMAIN books)
        /\ {l.list[i].url : i \in 1..Len(l.list)} =
              {<<47>> \o k : k \in DOMAIN books}
        /\ \A i \in 1..Len(l.list) :
              /\ l.list[i].url = <<47>> \o booksOrder[i]
              /\ l.list[i].version = Version(books[booksOrder[i]])
              /\ l.list[i].modified = books[booksOrder[i]].modified

\* C11: whenever a list is served it succeeds and returns exactly one
\* summary per stored key, in the order of the order slice, each with the
\* fingerprint of the current payload and the current modified time.
C11_ListOnePerKey ==
    \A r \in Workers : pc[r] = "read" => ListIsOnePerKey

\* C11 from the first baseline load onward
ListOnePerKeyOnceLoaded ==
    \A r \in Workers : (pc[r] = "read" /\ ~booksNil) => ListIsOnePerKey

\* a step in which worker w returns from listBooks or getBook
ReadReturns(w) == pc[w] = "read" /\ pc'[w] = "idle"

\* C12: a get of a key that is not in the map answers 404 whatever
\* conditional headers it carries, and the read leaves the store unchanged.
C12_AbsentKeyNotFound ==
    [][\A w \in Workers :
          ReadReturns(w) =>
              /\ \A k \in RequestKeys, c \in Conds :
                    ~Has(books, k) => GetResponse(books, k, c) = StatusResp(404)
              /\ store' = store]_vars

\* a get is served by the loaded store while "sapiens" (deleted) and "zz"
\* are not in it
C12_Witness ==
    \E r \in Workers :
        /\ pc[r] = "read"
        /\ ~booksNil
        /\ ~Has(books, sapiens)
        /\ ~Has(books, NewKeyZ)

-----------------------------------------------------------------------------
(* Conditional writes *)

\* a put or delete handler has returned
WriteReturned(w) == pc[w] = "unlock" /\ op[w] \in {"put", "delete"}

\* the write of worker w was stopped (412) exactly when it carried
\* conditional headers, an entry existed for its key, and the preconditions
\* failed against that entry; a write to an absent key went through, and a
\* put created the entry
ConditionsOnlyOnExisting(w) ==
    /\ resp[w].status = 412 <=>
          Rejected(pre[w].books, req[w].key, req[w].cond)
    /\ ~Has(pre[w].books, req[w].key) =>
          /\ resp[w].status = 204
          /\ op[w] = "put" =>
                /\ Has(books, req[w].key)
                /\ Marshal(books[req[w].key]) = Marshal(req[w].body[1])
          /\ op[w] = "delete" => ~Has(books, req[w].key)

\* C13: put and delete evaluate the preconditions only when the request
\* carries conditional headers and an entry exists for the key, against that
\* entry; a put to an absent key always creates the entry and a delete of an
\* absent key always succeeds, whatever headers are sent.
C13_ConditionsOnlyOnExisting ==
    \A w \in Workers : WriteReturned(w) => ConditionsOnlyOnExisting(w)

\* C13 from the first baseline load onward
ConditionsOnlyOnExistingOnceLoaded ==
    \A w \in Workers :
        (WriteReturned(w) /\ ~booksNil) => ConditionsOnlyOnExisting(w)

-----------------------------------------------------------------------------
(* The precondition evaluator on its own *)

\* entity-tag lists of a condition: none, one tag, the other tag, the
\* wildcard, both tags
EvalFingerprints == {Version(BodyV1), Version(BaselineData[sapiens])}

EvalTags ==
    {<<>>, <<Wildcard>>}
        \cup {<<f>> : f \in EvalFingerprints}
        \cup {<<f, g>> : f \in EvalFingerprints, g \in EvalFingerprints}

EvalConds ==
    [ifMatch : EvalTags, ifNoneMatch : EvalTags,
     ifModifiedSince : 0..MaxClock, ifUnmodifiedSince : 0..MaxClock]

\* every request an evaluation can be made for
EvalInputs ==
    {[cond |-> c, fp |-> f, t |-> t, write |-> wr, out |-> "none", status |-> 0] :
        c \in EvalConds, f \in EvalFingerprints, t \in 1..MaxClock,
        wr \in BOOLEAN}

EvalInit == InitStore /\ echo = NoEcho /\ v2 = NoV2 /\ ev \in EvalInputs

\* the handler calls PreconditionFailed(fingerprint, modified) and, when it
\* returns true, answers with the status of its verb
EvalStep ==
    /\ ev.out = "none"
    /\ ev' = [ev EXCEPT
                !.out = Evaluate(ev.cond, ev.fp, ev.t),
                !.status = IF PreconditionFailed(ev.cond, ev.fp, ev.t)
                           THEN ConditionalStatus(ev.write)
                           ELSE 0]
    /\ UNCHANGED <<store, booksBytes, now, lock, pc, op, req, resp, loaded,
                   hist, echo, v2>>

EvalNext == EvalStep

EvalSpec == EvalInit /\ [][EvalNext]_vars

Evaluated == ev.out # "none"

\* C14: evaluating if-none-match = [fp] alone against (fp, t) gives
\* NotModified; if-match = [fp2] alone with fp2 # fp gives
\* PreconditionFailed; no condition at all gives Proceed.
C14_PreconditionRoundTrip ==
    Evaluated =>
        /\ ev.cond = [NoCond EXCEPT !.ifNoneMatch = <<ev.fp>>] =>
              ev.out = "NotModified"
        /\ \A fp2 \in EvalFingerprints \ {ev.fp} :
              ev.cond = [NoCond EXCEPT !.ifMatch = <<fp2>>] =>
                  ev.out = "PreconditionFailed"
        /\ ev.cond = NoCond => ev.out = "Proceed"

\* an evaluation of if-none-match = [fp] against fp was made
C14_Witness ==
    /\ Evaluated
    /\ ev.cond = [NoCond EXCEPT !.ifNoneMatch = <<ev.fp>>]
    /\ ev.out = "NotModified"

IfMatchHits == ev.fp \in Range(ev.cond.ifMatch) \/ Wildcard \in Range(ev.cond.ifMatch)

\* C15: when an if-match is present and lists the current fingerprint or the
\* wildcard, if-unmodified-since is ignored: the outcome is the one of the
\* same request without it and is not PreconditionFailed, even when the
\* entry was modified after its timestamp.  When the if-match lists neither,
\* the outcome is PreconditionFailed whatever the other conditions are.
C15_IfMatchDecidesAlone ==
    (Evaluated /\ ev.cond.ifMatch # <<>>) =>
        IF IfMatchHits
        THEN /\ ev.out # "PreconditionFailed"
             /\ ev.out = Evaluate([ev.cond EXCEPT !.ifUnmodifiedSince = 0],
                                  ev.fp, ev.t)
        ELSE ev.out = "PreconditionFailed"

\* an if-match that lists the fingerprint came with an if-unmodified-since
\* older than the entry, and the request went on
C15_Witness ==
    /\ Evaluated
    /\ ev.cond.ifMatch # <<>>
    /\ IfMatchHits
    /\ ev.cond.ifUnmodifiedSince # 0
    /\ ev.t > ev.cond.ifUnmodifiedSince
    /\ ev.out = "Proceed"

-----------------------------------------------------------------------------
(* Conditional outcomes of the handlers *)

\* condition c has an if-none-match that matches the entry of key k in m
NoneMatchHits(m, k, c) ==
    /\ Has(m, k)
    /\ c.ifNoneMatch # <<>>
    /\ Version(m[k]) \in Range(c.ifNoneMatch) \/ Wildcard \in Range(c.ifNoneMatch)

\* C16: a Get answers 200, 404 or 304 and never 412, a Put or Delete never
\* answers 304; a matching if-none-match gives 304 on a Get and 412 on a Put
\* or Delete; a 304 and a 412 carry no body.
C16_ConditionalOutcomes ==
    /\ \A r \in Workers : pc[r] = "read" =>
          \A k \in RequestKeys, c \in Conds :
             LET g == GetResponse(books, k, c)
             IN  /\ g.status \in {200, 404, 304}
                 /\ g.status # 200 => g.body = <<>>
                 /\ NoneMatchHits(books, k, c) => g = StatusResp(304)
    /\ \A w \in Workers : WriteReturned(w) =>
          /\ resp[w].status \in {204, 412, 500}
          /\ resp[w].body = <<>>
          /\ NoneMatchHits(pre[w].books, req[w].key, req[w].cond) =>
                resp[w] = StatusResp(412)

\* a write with a matching if-none-match has been answered, and a Get of the
\* same key under the same condition would be answered from this store
C16_Witness ==
    \E w \in Workers :
        /\ WriteReturned(w)
        /\ NoneMatchHits(pre[w].books, req[w].key, req[w].cond)
        /\ resp[w].status = 412
        /\ GetResponse(books, req[w].key, req[w].cond).status = 304

-----------------------------------------------------------------------------
(* The echo handler: repeated requests with one request model *)

\* the request that is sent, over and over
EchoInit ==
    /\ InitStore
    /\ ev = NoEval
    /\ v2 = NoV2
    /\ echo \in {[model |-> m, etags |-> <<>>] : m \in EchoModels}

\* echoHandler: resp is built from the request, etag := genETag(resp) and
\* the ETag header is set
EchoHandler ==
    /\ Len(echo.etags) < MaxEchoRequests
    /\ \E e \in genETag(echo.model) :
          echo' = [echo EXCEPT !.etags = Append(@, e)]
    /\ UNCHANGED <<store, booksBytes, now, lock, pc, op, req, resp, loaded,
                   hist, ev, v2>>

EchoNext == EchoHandler

EchoSpec == EchoInit /\ [][EchoNext]_vars

\* Book.Version of a stored payload does not depend on the time of the put
BookFingerprintPublicOnly ==
    \A body \in Bodies \cup {BaselineData[k] : k \in BaselineKeys},
       t1, t2 \in 0..MaxClock :
          Version(StoredBook(body, t1)) = Version(StoredBook(body, t2))

\* C17: the fingerprint is a deterministic function of the public content:
\* every computation of the ETag of one echoed request model gives the same
\* token, and the fingerprint of a book does not depend on its modification
\* time.
C17_FingerprintDeterministic ==
    /\ \A i, j \in 1..Len(echo.etags) : echo.etags[i] = echo.etags[j]
    /\ BookFingerprintPublicOnly

-----------------------------------------------------------------------------
(* A baseline dataset of more than 20 books *)

\* books.json with sapiens and t0..t<LastBaselineKey + 3>
BigBaselineKeys == {KeyT(i) : i \in 0..(LastBaselineKey + 3)} \cup {sapiens}

BigBaselineData ==
    [k \in BigBaselineKeys |->
        MkBook(<<84>> \o k,
               IF k = sapiens THEN <<[date |-> 0, rating |-> 45]>> ELSE <<>>,
               0)]

BigInit == InitWith(BigBaselineData) /\ ev = NoEval /\ echo = NoEcho /\ v2 = NoV2

BigSpec == BigInit /\ [][Next]_vars

\* C18: whenever no mutating operation is under way (a put, a delete, a
\* reload or a tick), the store holds at most 20 entries, whatever the
\* baseline dataset is.
C18_AtMostMaxBooksAnyBaseline ==
    NoWriterInside => Cardinality(DOMAIN books) <= MaxBooks

-----------------------------------------------------------------------------
(* The baseline reset under fair scheduling *)

\* the store is the baseline: its keys, its payloads and its order slice
Restored ==
    /\ DOMAIN books = DOMAIN booksBytes
    /\ \A k \in DOMAIN books : Marshal(books[k]) = Marshal(booksBytes[k])
    /\ Range(booksOrder) = DOMAIN booksBytes
    /\ Len(booksOrder) = Cardinality(DOMAIN booksBytes)

\* C19: whatever puts and deletes are served, the store is reset to the
\* baseline again and again, and the baseline dataset never changes.
C19_MutationsDoNotPersist ==
    /\ []<>Restored
    /\ [](booksBytes = BaselineData)

\* a reload has put the baseline map back while the order slice still shows
\* what the puts had made of the store: "zz" stored and the oldest baseline
\* key evicted
C19_Witness ==
    /\ pc[ResetProc] = "keys"
    /\ DOMAIN books = DOMAIN booksBytes
    /\ NewKeyZ \in Range(booksOrder)
    /\ Len(booksOrder) = MaxBooks
    /\ Range(booksOrder) # DOMAIN booksBytes

-----------------------------------------------------------------------------
(* Rejected writes *)

\* C20: when a put or a delete has been answered 412, the map (keys,
\* payloads and modified times) and the order slice are what they were when
\* the handler took the lock: nothing was stored, deleted or evicted.
C20_RejectedWriteChangesNothing ==
    \A w \in Workers :
        (WriteReturned(w) /\ resp[w].status = 412) =>
            /\ books = pre[w].books
            /\ booksOrder = pre[w].order

\* a delete of an existing key was rejected in a store that holds a key put
\* at run time
C20_Witness ==
    \E w \in Workers :
        /\ WriteReturned(w)
        /\ op[w] = "delete"
        /\ resp[w].status = 412
        /\ Has(books, req[w].key)
        /\ Has(books, NewKeyA)

-----------------------------------------------------------------------------
(* The handlers of echo.go (huma v2): the get handler returns a response    *)
(* that holds the pointer to the stored Book, and the framework serializes  *)
(* the body after the handler has returned                                  *)

V2Keys == {sapiens, NewKeyA}

\* RegisterGetBook, the handler function: b := books[id]; 404 when nil;
\* otherwise resp = {ETag: b.Version(), LastModified: b.modified, Body: b};
\* the deferred RUnlock runs as the handler returns
V2GetReturn(w, k) ==
    /\ pc[w] = "read"
    /\ rwR' = rwR \ {w}
    /\ IF Has(books, k)
       THEN /\ v2' = [v2 EXCEPT ![w] =
                        [key |-> k, etag |-> <<Version(books[k])>>,
                         lastModified |-> books[k].modified,
                         ref |-> <<books[k]>>, live |-> TRUE,
                         body |-> <<>>, sent |-> FALSE]]
            /\ pc' = [pc EXCEPT ![w] = "serialize"]
       ELSE /\ v2' = [v2 EXCEPT ![w] = NoGetBookResponse]
            /\ pc' = [pc EXCEPT ![w] = "idle"]
    /\ UNCHANGED <<store, booksBytes, ev, echo, now, rwW, rwB, op, req, resp,
                   loaded, hist>>

\* the framework writes the headers and marshals resp.Body, that is *b as
\* it is now
V2Serialize(w) ==
    /\ pc[w] = "serialize"
    /\ v2' = [v2 EXCEPT ![w].body = v2[w].ref, ![w].sent = TRUE,
                        ![w].ref = <<>>, ![w].live = FALSE]
    /\ pc' = [pc EXCEPT ![w] = "idle"]
    /\ UNCHANGED <<store, booksBytes, ev, echo, now, lock, op, req, resp,
                   loaded, hist>>

\* books = loaded: every key gets a new Book; the pointers handlers still
\* hold are no longer those of the map
V2ResetAssign ==
    /\ pc[ResetProc] = "assign"
    /\ books' = loaded
    /\ booksNil' = FALSE
    /\ loaded' = <<>>
    /\ lastPut' = [k \in RequestKeys |-> NoPut]
    /\ acq' = <<>>
    /\ v2' = [w \in Workers |-> [v2[w] EXCEPT !.live = FALSE]]
    /\ pc' = [pc EXCEPT ![ResetProc] = "keys"]
    /\ UNCHANGED <<booksOrder, booksBytes, ev, echo, now, lock, op, req, resp,
                   pre>>

\* b := books["sapiens"]; b.modified = ...; b.RecentRatings = ...: the Book
\* is changed in place, for everyone who holds the pointer
V2Tick ==
    /\ pc[LiveProc] = "tick"
    /\ IF Has(books, sapiens)
       THEN /\ books' = MapPut(books, sapiens, LiveUpdate(books[sapiens], now))
            /\ lastPut' = Forget(lastPut, sapiens)
            /\ v2' = [w \in Workers |->
                        IF v2[w].live /\ v2[w].key = sapiens
                        THEN [v2[w] EXCEPT
                                !.ref = <<LiveUpdate(books[sapiens], now)>>]
                        ELSE v2[w]]
       ELSE UNCHANGED <<books, lastPut, v2>>
    /\ pc' = [pc EXCEPT ![LiveProc] = "unlock"]
    /\ UNCHANGED <<booksNil, booksOrder, booksBytes, ev, echo, now, lock, op,
                   req, resp, loaded, pre, acq>>

V2Next ==
    \/ AdvanceClock
    \/ \E w \in Workers : BeginRead(w)
    \/ \E w \in Workers, k \in V2Keys : V2GetReturn(w, k)
    \/ \E w \in Workers : V2Serialize(w)
    \/ \E p \in Procs : AcquireW(p)
    \/ \E p \in Procs : Drained(p)
    \/ \E p \in Procs : Unlock(p)
    \/ ResetLoad
    \/ V2ResetAssign
    \/ ResetOrder
    \/ V2Tick

V2Spec == Init /\ [][V2Next]_vars

\* C21: the body a get has sent is the version its ETag names: the ETag is
\* the fingerprint of the body, and the handler holds no pointer to a stored
\* Book once it has released the read lock.
C21_GetIsSnapshot ==
    \A w \in Workers :
        /\ v2[w].sent => v2[w].etag = <<Version(v2[w].body[1])>>
        /\ v2[w].live => w \in rwR

\* the first half of C21 alone: the ETag sent is the fingerprint of the body
\* sent
V2ETagNamesBody ==
    \A w \in Workers :
        v2[w].sent => v2[w].etag = <<Version(v2[w].body[1])>>

-----------------------------------------------------------------------------
(* Mutual exclusion *)

\* the lock itself: a goroutine inside a write section is alone inside
LockExcludes ==
    \A p \in Procs :
        pc[p] \in WritePcs =>
            \A q \in Procs \ {p} : pc[q] \notin WritePcs \cup ReadPcs

\* C28: while a writer is inside its critical section no other writer and
\* no reader is inside its own, and no goroutine without the lock is still
\* reading a stored Book.
C28_MutualExclusion ==
    /\ LockExcludes
    /\ \A p \in Procs :
          pc[p] \in WritePcs =>
              \A w \in Workers : ~(v2[w].live /\ w \notin rwR)

-----------------------------------------------------------------------------
(* Two clients that update "sapiens" from the version they read *)

BodyV2 == MkBook(<<118, 50>>, <<>>, 0)

LostBodies == {BodyV1, BodyV2}

\* the fingerprint both clients read: the baseline version of the entry
ReadFingerprint == Version(BaselineData[sapiens])

IfMatchRead == [NoCond EXCEPT !.ifMatch = <<ReadFingerprint>>]

LostNext ==
    \/ AdvanceClock
    \/ \E w \in Workers : BeginWrite(w)
    \/ \E p \in Procs : AcquireW(p)
    \/ \E p \in Procs : Drained(p)
    \/ \E p \in Procs : Unlock(p)
    \/ \E w \in Workers, b \in LostBodies : PutWrite(w, sapiens, b, IfMatchRead)
    \/ \E w \in Workers : PutEvict(w)
    \/ ResetLoad
    \/ ResetAssign
    \/ ResetOrder
    \/ Tick

LostSpec == Init /\ [][LostNext]_vars

\* worker w runs putBook up to its first return or to the eviction loop
PutRuns(w) == pc[w] = "write" /\ pc'[w] # "write" /\ op'[w] = "put"

\* C22: a put to an existing key that carries if-match [fp] is applied when
\* the stored fingerprint is fp and is rejected with 412, the store
\* unchanged, when it is not; so when the payload of another such put
\* (whose fingerprint is not fp) is what the key holds, the put is rejected:
\* of two puts with the same if-match at most one is applied until a reload
\* brings fp back.
C22_NoLostUpdate ==
    [][\A w \in Workers :
          (PutRuns(w) /\ Has(books, req'[w].key)) =>
              LET k == req'[w].key
                  listed == Version(books[k]) \in Range(req'[w].cond.ifMatch)
              IN  /\ listed =>
                        /\ pc'[w] = "putEvict"
                        /\ Marshal(books'[k]) = Marshal(req'[w].body[1])
                  /\ ~listed =>
                        /\ resp'[w].status = 412
                        /\ store' = store
                  /\ (lastPut[k] # NoPut /\ lastPut[k][1] # ReadFingerprint)
                        => ~listed]_vars

\* a put with if-match [fp] has been rejected because the key holds the
\* payload of the other client's put
C22_Witness ==
    \E w \in Workers :
        /\ PutReturned(w)
        /\ resp[w].status = 412
        /\ req[w].cond = IfMatchRead
        /\ lastPut[sapiens] # NoPut
        /\ Version(books[sapiens]) = lastPut[sapiens][1]
        /\ Version(req[w].body[1]) # ReadFingerprint

-----------------------------------------------------------------------------
(* The live update *)

\* a step in which the live-update goroutine runs the body of its loop
TickRuns == pc[LiveProc] = "tick" /\ pc'[LiveProc] = "unlock"

\* C23: a tick leaves the key set, the order slice and every entry other
\* than "sapiens" as they are, and changes nothing at all when "sapiens" is
\* not in the map.
C23_TickTouchesOnlySapiens ==
    [][TickRuns =>
          /\ DOMAIN books' = DOMAIN books
          /\ booksOrder' = booksOrder
          /\ booksNil' = booksNil
          /\ \A k \in DOMAIN books \ {sapiens} : books'[k] = books[k]
          /\ ~Has(books, sapiens) => books' = books]_vars

\* a tick has run on a loaded store from which "sapiens" had been deleted
\* and which holds a key put at run time
C23_Witness ==
    /\ pc[LiveProc] = "unlock"
    /\ ~booksNil
    /\ ~Has(books, sapiens)
    /\ Has(books, NewKeyA)
    /\ Len(booksOrder) = Cardinality(DOMAIN books)


\* C24 as stated: a tick on a present entry appends one rating: the ratings
\* the entry had are still there and the list is one longer.
C24_TickAppendsRating ==
    [][(TickRuns /\ Has(books, sapiens)) =>
          /\ Len(books'[sapiens].recent) = Len(books[sapiens].recent) + 1
          /\ Range(books[sapiens].recent) \subseteq Range(books'[sapiens].recent)
      ]_vars

\* C24, amended: a tick on a present entry replaces its recent ratings by
\* one rating of 4.6 dated at the tick, sets modified to the time of the
\* tick and leaves the title as it is.
C24_TickReplacesRatings ==
    [][(TickRuns /\ Has(books, sapiens)) =>
          /\ books'[sapiens].recent = <<[date |-> now, rating |-> 46]>>
          /\ books'[sapiens].modified = now
          /\ books'[sapiens].title = books[sapiens].title]_vars

\* a tick has run on the baseline entry, which had a rating of its own, and
\* the entry holds the one rating of the tick
C24_Witness ==
    /\ pc[LiveProc] = "unlock"
    /\ Has(books, sapiens)
    /\ books[sapiens].title = BaselineData[sapiens].title
    /\ Len(BaselineData[sapiens].recent) = 1
    /\ books[sapiens].recent = <<[date |-> now, rating |-> 46]>>

-----------------------------------------------------------------------------
(* Polling "sapiens" while the live update runs *)

\* time.Sleep(10 * time.Second) and then the body of the loop: the
\* time.Now() of a tick is later than the time the entry was last stamped
\* with (ten seconds later than the tick before it)
SleptTick ==
    /\ Has(books, sapiens) => books[sapiens].modified < now
    /\ Tick

PollNext ==
    \/ AdvanceClock
    \/ \E w \in Workers : BeginRead(w)
    \/ \E w \in Workers : BeginWrite(w)
    \/ \E p \in Procs : AcquireW(p)
    \/ \E p \in Procs : Drained(p)
    \/ \E p \in Procs : Unlock(p)
    \/ \E w \in Workers : ReadDone(w)
    \/ \E w \in Workers : PutWrite(w, sapiens, BodyV1, NoCond)
    \/ \E w \in Workers : PutEvict(w)
    \/ \E w \in Workers : DelWrite(w, sapiens, NoCond)
    \/ ResetLoad
    \/ ResetAssign
    \/ ResetOrder
    \/ SleptTick

PollSpec == Init /\ [][PollNext]_vars

\* the poll: a get of "sapiens" with if-none-match set to the fingerprint fp
Poll(m, fp) == GetResponse(m, sapiens, [NoCond EXCEPT !.ifNoneMatch = <<fp>>])

-----------------------------------------------------------------------------
(* How often a handler evaluates the preconditions *)

\* the evaluations of the write handler worker w has run
WriteCalls(w) ==
    PreconditionCalls(op[w], pre[w].books, req[w].key, req[w].cond)

\* C26 as stated: every list, get, put and delete evaluates the conditions
\* of its request exactly once.
C26_ExactlyOneEvaluation ==
    /\ \A r \in Workers : pc[r] = "read" =>
          \A k \in RequestKeys, c \in Conds :
             /\ PreconditionCalls("list", books, k, c) = 1
             /\ PreconditionCalls("get", books, k, c) = 1
    /\ \A w \in Workers : WriteReturned(w) => WriteCalls(w) = 1

\* C26, amended: a handler evaluates the conditions at most once, and never
\* after it has changed the store.  A list never does; a get does once
\* exactly when the key exists; a put and a delete do once exactly when the
\* request carries conditional headers and the key exists.  A 304 or a 412 is
\* only answered after an evaluation, and a write that was answered 412 after
\* its evaluation has left the store as it was.
C26_AtMostOneEvaluation ==
    /\ \A r \in Workers : pc[r] = "read" =>
          \A k \in RequestKeys, c \in Conds :
             /\ PreconditionCalls("list", books, k, c) = 0
             /\ PreconditionCalls("get", books, k, c) = 1 <=> Has(books, k)
             /\ PreconditionCalls("get", books, k, c) \in {0, 1}
             /\ GetResponse(books, k, c).status = 304 =>
                   PreconditionCalls("get", books, k, c) = 1
    /\ \A w \in Workers : WriteReturned(w) =>
          /\ WriteCalls(w) \in {0, 1}
          /\ WriteCalls(w) = 1 <=>
                (HasConditionalParams(req[w].cond)
                    /\ Has(pre[w].books, req[w].key))
          /\ resp[w].status = 412 =>
                (WriteCalls(w) = 1 /\ books = pre[w].books
                    /\ booksOrder = pre[w].order)

\* a put without conditional headers has replaced an existing entry: no
\* evaluation was made
C26_Witness ==
    \E w \in Workers :
        /\ PutAccepted(w)
        /\ req[w].cond = NoCond
        /\ Has(pre[w].books, req[w].key)
        /\ WriteCalls(w) = 0

-----------------------------------------------------------------------------
(* A put to a key that is there *)

\* how often k occurs in the order slice o
Occurrences(o, k) == Cardinality({i \in 1..Len(o) : o[i] = k})

\* C27: an accepted put to a key that was in the map leaves the order slice
\* as it was, with the key once in it at its old place, leaves the key set
\* and every other entry as they were (nothing is evicted), and stores the
\* payload with a time the clock has shown.
C27_PutExistingKeepsPlace ==
    \A w \in Workers :
        (PutAccepted(w) /\ Has(pre[w].books, req[w].key)) =>
            LET k == req[w].key
            IN  /\ booksOrder = pre[w].order
                /\ Occurrences(booksOrder, k) = 1
                /\ DOMAIN books = DOMAIN pre[w].books
                /\ \A x \in DOMAIN books \ {k} : books[x] = pre[w].books[x]
                /\ Marshal(books[k]) = Marshal(req[w].body[1])
                /\ books[k].modified \in 1..now

\* the put of "a" has been repeated: "a" was there, it is still the last
\* key of the order slice, and the store is full
C27_Witness ==
    \E w \in Workers :
        /\ PutAccepted(w)
        /\ req[w].key = NewKeyA
        /\ Has(pre[w].books, NewKeyA)
        /\ booksOrder[Len(booksOrder)] = NewKeyA
        /\ Len(booksOrder) = MaxBooks

-----------------------------------------------------------------------------
(* Modification times *)

\* every stored modified time is a reading of the clock, not the value the
\* request body came with
StampedByStore == \A k \in DOMAIN books : books[k].modified \in 1..now

\* C29: the modified time of a stored entry was set by the store from the
\* clock, and the modified time of a key never goes back from one state of
\* the store to the next, so that a later get of the key never shows an
\* earlier Last-Modified than a get before it.
C29_ModifiedNeverDecreases ==
    [][/\ StampedByStore
       /\ \A k \in DOMAIN books \cap DOMAIN books' :
             books'[k].modified >= books[k].modified]_vars


\* the Last-Modified header a get of key k returns
LastModifiedOf(k) == GetResponse(books, k, NoCond).lastModified

\* C30: while the entry does not change, a get that sends the Last-Modified
\* of an earlier get back as if-modified-since is answered 304, and a put or
\* delete that sends it as if-unmodified-since is not rejected.
C30_ValidatorRoundTrip ==
    \A r \in Workers : pc[r] = "read" =>
        \A k \in DOMAIN books :
            /\ GetResponse(books, k,
                   [NoCond EXCEPT !.ifModifiedSince = LastModifiedOf(k)]).status
                  = 304
            /\ ~Rejected(books, k,
                   [NoCond EXCEPT !.ifUnmodifiedSince = LastModifiedOf(k)])

\* C30 for the entries whose modified time is a whole second
RoundTripOnWholeSeconds ==
    \A r \in Workers : pc[r] = "read" =>
        \A k \in DOMAIN books :
            books[k].modified = HttpTimeFormat(books[k].modified) =>
                /\ GetResponse(books, k,
                       [NoCond EXCEPT !.ifModifiedSince = LastModifiedOf(k)]).status
                      = 304
                /\ ~Rejected(books, k,
                       [NoCond EXCEPT !.ifUnmodifiedSince = LastModifiedOf(k)])

-----------------------------------------------------------------------------
(* Startup *)

\* a request handler is inside its critical section: listBooks or getBook
\* under the read lock, putBook or deleteBook under the write lock
HandlerInside(w) == pc[w] \in ReadPcs \cup WritePcs

\* C31: no request handler runs against an uninitialised store: whenever a
\* list, get, put or delete is inside its critical section the first
\* baseline load has completed, so the map is not nil.
C31_LoadedBeforeRequests ==
    \A w \in Workers : HandlerInside(w) => ~booksNil

\* what an early request sees: a put that appended its key to the order
\* slice and then failed on the nil map, next to a reader of the store
EarlyPutOnNilMap ==
    /\ booksNil
    /\ \E w \in Workers : PutReturned(w) /\ resp[w].status = 500
    /\ booksOrder # <<>>

-----------------------------------------------------------------------------
(* Insertion age *)

\* s is what is left of t after keys were dropped from its front
IsSuffix(s, t) == \E i \in 0..Len(t) : s = SubSeq(t, i + 1, Len(t))

\* a delete handler has returned 204
DeleteAccepted(w) ==
    pc[w] = "unlock" /\ op[w] = "delete" /\ resp[w].status = 204

\* a put handler has returned 204 for a key that had no entry when its
\* section began, as is the case after a delete of that key
PutAfterDelete(w) == PutAccepted(w) /\ ~Has(pre[w].books, req[w].key)

\* C32: insertion age is reset by deletion.  A delete of key k leaves the
\* other keys of the order slice in the order they had; a put of k that finds
\* no entry for k, as after the delete, makes k the last element of the
\* slice, and the other keys keep their relative order (the eviction loop of
\* the put can only drop keys from the front).
C32_DeleteResetsAge ==
    \A w \in Workers :
        /\ DeleteAccepted(w) =>
              /\ Without(booksOrder, req[w].key)
                     = Without(pre[w].order, req[w].key)
              /\ ~booksNil => req[w].key \notin Range(booksOrder)
        /\ PutAfterDelete(w) =>
              /\ booksOrder # <<>>
              /\ booksOrder[Len(booksOrder)] = req[w].key
              /\ IsSuffix(Without(booksOrder, req[w].key),
                          Without(pre[w].order, req[w].key))

\* a put of sapiens has returned 204 on the loaded baseline from which
\* sapiens, and nothing else, had been deleted: sapiens, the first key of
\* the baseline order, is now the last one
C32_Witness ==
    \E w \in Workers :
        /\ PutAfterDelete(w)
        /\ req[w].key = sapiens
        /\ DOMAIN pre[w].books = BaselineKeys \ {sapiens}
        /\ Len(pre[w].order) > 1
        /\ booksOrder = Append(pre[w].order, sapiens)

\* a delete of a key that is neither first nor last in the order slice has
\* returned 204
DeleteInTheMiddle ==
    \E w \in Workers :
        /\ DeleteAccepted(w)
        /\ LET idx == SlicesIndex(pre[w].order, req[w].key)
           IN  idx > 1 /\ idx < Len(pre[w].order)

-----------------------------------------------------------------------------
(* The echo handler: revalidation of a request with the ETag it was given *)

\* the value of the ETag header, `"` + etag + `"`, which a client sends
\* back as the value of If-None-Match
Quote(e) == <<"quoted", e>>

\* input.request.Header of a request with the headers h and the
\* conditional headers c: the If-None-Match header is one of its entries
RequestHeader(h, c) ==
    IF c.ifNoneMatch = <<>> THEN h
    ELSE [n \in DOMAIN h \cup {"If-None-Match"} |->
              IF n = "If-None-Match" THEN Quote(c.ifNoneMatch[1]) ELSE h[n]]

\* echoHandler: resp, the model that is echoed and hashed; headers is
\* filled by a range over every header of the request
EchoResp(m, c) == [m EXCEPT !.headers = RequestHeader(m.headers, c)]

\* lastModified: the fixed time 2022-02-01T12:34:56Z
EchoLastModified == 1

\* echoHandler for the request of `echo` sent with the conditional headers
\* c: the ETag of resp is computed, the preconditions are evaluated against
\* it, and the handler returns 304 or sets the ETag header and writes the
\* model with status 200
EchoServe(c) ==
    /\ Len(echo.etags) < MaxEchoRequests
    /\ \E e \in genETag(EchoResp(echo.model, c)) :
          /\ ev' = [cond |-> c, fp |-> e, t |-> EchoLastModified,
                    write |-> FALSE,
                    out |-> Evaluate(c, e, EchoLastModified),
                    status |-> IF PreconditionFailed(c, e, EchoLastModified)
                               THEN ConditionalStatus(FALSE)
                               ELSE 200]
          /\ echo' = IF PreconditionFailed(c, e, EchoLastModified)
                     THEN echo
                     ELSE [echo EXCEPT !.etags = Append(@, e)]
    /\ UNCHANGED <<store, booksBytes, now, lock, pc, op, req, resp, loaded,
                   hist, v2>>

\* the request is sent without conditional headers
EchoFirst == echo.etags = <<>> /\ EchoServe(NoCond)

\* the same request is sent again with If-None-Match carrying the ETag of
\* the first response
EchoRevalidate ==
    /\ echo.etags # <<>>
    /\ EchoServe([NoCond EXCEPT !.ifNoneMatch = <<echo.etags[1]>>])

RevalNext == EchoFirst \/ EchoRevalidate

RevalSpec == EchoInit /\ [][RevalNext]_vars

\* the request just served was a revalidation
Revalidated == ev.cond.ifNoneMatch # <<>>

\* C33: re-sending a request to the echo endpoint unchanged except for an
\* if-none-match header carrying the ETag returned for that request yields
\* NotModified (304): the ETag does not depend on the conditional headers.
C33_EchoRevalidates ==
    Revalidated => ev.out = "NotModified" /\ ev.status = 304

\* what the handler does instead: the ETag of a revalidation differs from
\* the one sent and the full response is written again
EchoNeverRevalidates ==
    Revalidated =>
        /\ ev.fp \notin Range(ev.cond.ifNoneMatch)
        /\ ev.out = "Proceed"
        /\ ev.status = 200

\* the revalidation of a request without headers or query parameters, whose
\* first ETag is the only one it can have
RevalidatedPlainRequest ==
    /\ Revalidated
    /\ echo.model.headers = <<>>
    /\ echo.model.query = <<>>
    /\ ev.status = 200

=============================================================================
